---------------------------- MODULE Spec2Model ----------------------------
(***************************************************************************)
(* A model of the stock predictor repository:                              *)
(*                                                                         *)
(*   - simulation/simulation.py: CustomStrategy run by backtrader's        *)
(*     Cerebro over a price frame (SpecSim);                               *)
(*   - data_collection/yahoo_finance_data.py: StockAnalyzer's indicator    *)
(*     columns, computed with pandas over the stored frame (SpecInd);      *)
(*   - models/light_yagami.py: StockPredictor around scikit-learn's        *)
(*     LinearRegression (SpecPred).                                        *)
(*                                                                         *)
(* Prices are integers and every average is kept as an exact fraction, so  *)
(* comparisons are those of real arithmetic (floating-point rounding is    *)
(* not modelled).  Bars are numbered 1..n; bar k here is index k-1 of the  *)
(* Python code.                                                            *)
(***************************************************************************)
EXTENDS Integers, Sequences, FiniteSets

VARIABLES
    \* ---- simulation.py: one run_backtest(df) call
    df,            \* the frame handed to run_backtest: bars [Open, Close]
    status,        \* "created" | "running" | "finished" | "raised"
    error,         \* the exception that ended cerebro.run, or "none"
    bar,           \* len(self.data): bars delivered so far
    phase,         \* whose turn it is in cerebro's loop: "broker" | "strategy"
    position,      \* self.position.size
    cash,          \* self.broker.get_cash()
    order,         \* the order submitted by the last next(), not yet executed
    cash_log,      \* self.cash_log
    datetime_log,  \* self.datetime_log
    \* ---- yahoo_finance_data.py: one StockAnalyzer
    history_data,  \* self.history_data: "None" or a frame
    lastCall,      \* the last method called on the analyzer and what it returned
    \* ---- light_yagami.py: one StockPredictor
    model,         \* self.model: the LinearRegression, fitted or not
    X_test,        \* self.X_test: number of held-out rows, or "None"
    outcome        \* the last train/predict call and how it ended

simVars == <<df, status, error, bar, phase, position, cash, order, cash_log, datetime_log>>
indVars == <<history_data, lastCall>>
predVars == <<model, X_test, outcome>>
vars == <<simVars, indVars, predVars>>

(***************************************************************************)
(* Bounds of the model.  The three windows are the strategy's params       *)
(* short_sma, long_sma and rsi_period (simulation.py lines 9-11, defaults  *)
(* 20, 50 and 14), scaled down so that every series of MaxBars bars can be *)
(* enumerated; the thresholds and the starting cash keep their values.     *)
(***************************************************************************)
short_sma == 2
long_sma == 3
rsi_period == 2
MaxBars == 7

rsi_upper == 70
rsi_lower == 30
starting_cash == 10000

Closes == {1, 2, 3}
\* the bars a frame is made of: ordinary bars that open at 2 and close anywhere
\* in Closes, and one bar whose open the starting cash cannot pay
Bars ==
    {[Open |-> 2, Close |-> c] : c \in Closes}
        \cup {[Open |-> starting_cash + 1, Close |-> 2]}

RECURSIVE SeqsUpTo(_, _)
\* all sequences over S of length 1..n
SeqsUpTo(S, n) ==
    IF n = 0 THEN {}
    ELSE LET shorter == SeqsUpTo(S, n - 1)
         IN  {<<x>> : x \in S} \cup shorter
                \cup {Append(s, x) : s \in {t \in shorter : Len(t) = n - 1}, x \in S}

Max(a, b) == IF a >= b THEN a ELSE b

RECURSIVE Pow(_, _)
Pow(b, e) == IF e = 0 THEN 1 ELSE b * Pow(b, e - 1)

RECURSIVE SumClose(_, _, _)
\* sum of the closes of bars a..b of frame d
SumClose(d, a, b) == IF a > b THEN 0 ELSE d[b].Close + SumClose(d, a, b - 1)

(***************************************************************************)
(* backtrader's indicators, as CustomStrategy.__init__ declares them.      *)
(***************************************************************************)
\* SimpleMovingAverage(close, period): defined from bar `period` on
SimpleMovingAverage(d, period, k) ==
    [n |-> SumClose(d, k - period + 1, k), d |-> period]

\* UpDay / DownDay of RelativeStrengthIndex: max(close - close(-1), 0), from bar 2
UpDay(d, k) == Max(d[k].Close - d[k - 1].Close, 0)
DownDay(d, k) == Max(d[k - 1].Close - d[k].Close, 0)

RECURSIVE SumDay(_, _, _, _)
SumDay(d, up, a, b) ==
    IF a > b THEN 0
    ELSE (IF up THEN UpDay(d, b) ELSE DownDay(d, b)) + SumDay(d, up, a, b - 1)

RECURSIVE Smoothed(_, _, _, _)
\* SmoothedMovingAverage(UpDay or DownDay, period) at bar k >= period + 1, as the
\* numerator of a fraction over period^(k - period): seeded with the plain
\* average of the first `period` values, then av = av*(1 - 1/period) + x/period
Smoothed(d, up, period, k) ==
    IF k = period + 1 THEN SumDay(d, up, 2, period + 1)
    ELSE Smoothed(d, up, period, k - 1) * (period - 1)
            + (IF up THEN UpDay(d, k) ELSE DownDay(d, k)) * Pow(period, k - period - 1)

\* rsi = 100 - 100 / (1 + maup / madown), for madown > 0
RelativeStrengthIndex(d, period, k) ==
    LET maup == Smoothed(d, TRUE, period, k)
        madown == Smoothed(d, FALSE, period, k)
    IN  [n |-> 100 * maup, d |-> maup + madown]

\* comparisons of fractions with positive denominators
Less(a, b) == a.n * b.d < b.n * a.d
Whole(x) == [n |-> x, d |-> 1]

sma_short(d, k) == SimpleMovingAverage(d, short_sma, k)
sma_long(d, k) == SimpleMovingAverage(d, long_sma, k)
rsi(d, k) == RelativeStrengthIndex(d, rsi_period, k)

\* the strategy's minimum period: next() is first called at this bar
minperiod == Max(Max(short_sma, long_sma), rsi_period + 1)

\* maup / madown with safediv left False: a float division by zero
RsiDividesByZero(d) ==
    \E k \in (rsi_period + 1)..Len(d) : Smoothed(d, FALSE, rsi_period, k) = 0

NoOrder == [kind |-> "none", price |-> 0]

InitAnalyzer ==
    /\ history_data = [loaded |-> FALSE, index |-> <<>>, Close |-> <<>>, cols |-> <<>>]
    /\ lastCall = [op |-> "init", window |-> 0, raised |-> "none", close |-> <<>>, out |-> <<>>]

InitPredictor ==
    /\ model = [fitted |-> FALSE, rows |-> 0]
    /\ X_test = [set |-> FALSE, rows |-> 0]
    /\ outcome = [op |-> "init", result |-> "none", asked |-> 0, rows |-> 0]

InitStrategy ==
    /\ status = "created"
    /\ error = "none"
    /\ bar = 0
    /\ phase = "broker"
    /\ position = 0
    /\ cash = starting_cash
    /\ order = NoOrder
    /\ cash_log = <<>>
    /\ datetime_log = <<>>

\* run_backtest(df) is about to run over any frame of 1..MaxBars bars
InitSim ==
    /\ df \in SeqsUpTo(Bars, MaxBars)
    /\ InitStrategy
    /\ InitAnalyzer
    /\ InitPredictor

(***************************************************************************)
(* cerebro.run(): the indicators are computed over the whole preloaded     *)
(* frame before the first bar is delivered.  A frame shorter than an       *)
(* indicator's period overruns the indicator's buffer; a smoothed average  *)
(* of down days that is zero makes the RSI divide by zero.                 *)
(***************************************************************************)
Preload ==
    /\ status = "created"
    /\ IF Len(df) < minperiod
       THEN status' = "raised" /\ error' = "IndexError"
       ELSE IF RsiDividesByZero(df)
            THEN status' = "raised" /\ error' = "ZeroDivisionError"
            ELSE status' = "running" /\ error' = "none"
    /\ UNCHANGED <<df, bar, phase, position, cash, order, cash_log, datetime_log>>
    /\ UNCHANGED <<indVars, predVars>>

\* (mutant) the position is not looked at: a buy may follow a buy
NotInMarket_Always(pos) == TRUE

\* `if not self.position`
NotInMarket(pos) == pos = 0

BuySignal(d, k) ==
    Less(sma_long(d, k), sma_short(d, k)) /\ Less(rsi(d, k), Whole(rsi_lower))

SellSignal(d, k) ==
    Less(sma_short(d, k), sma_long(d, k)) \/ Less(Whole(rsi_upper), rsi(d, k))

\* the order next() submits at bar k with position pos: a market order for one
\* unit (the default sizer), created at the bar's close
next(d, k, pos) ==
    IF NotInMarket(pos)
    THEN IF BuySignal(d, k) THEN [kind |-> "buy", price |-> d[k].Close] ELSE NoOrder
    ELSE IF SellSignal(d, k) THEN [kind |-> "sell", price |-> d[k].Close] ELSE NoOrder

\* the broker accepts a buy when the cash pays the price the order was created
\* at, and executes it when the cash pays the bar's open
BuyFills(o, c, open) == o.kind = "buy" /\ c >= o.price /\ c >= open

\* (mutant) the bar that reaches the minimum period is skipped
FirstNext_Late == minperiod + 1

\* the first bar at which the strategy's next() is called
FirstNext == minperiod

\* cerebro's loop, first half: the next bar is delivered and the broker executes
\* the pending market order at its open
BrokerNext ==
    /\ status = "running"
    /\ phase = "broker"
    /\ bar < Len(df)
    /\ LET open == df[bar + 1].Open
       IN  /\ bar' = bar + 1
           /\ IF BuyFills(order, cash, open)
              THEN position' = position + 1 /\ cash' = cash - open
              ELSE IF order.kind = "sell"
                   THEN position' = position - 1 /\ cash' = cash + open
                   ELSE UNCHANGED <<position, cash>>
    /\ order' = NoOrder
    /\ phase' = "strategy"
    /\ UNCHANGED <<df, status, error, cash_log, datetime_log>>
    /\ UNCHANGED <<indVars, predVars>>

\* cerebro's loop, second half: the strategy is called for the bar; before the
\* minimum period that is prenext(), which does nothing
StrategyNext ==
    /\ status = "running"
    /\ phase = "strategy"
    /\ IF bar >= FirstNext
       THEN /\ cash_log' = Append(cash_log, cash)
            /\ datetime_log' = Append(datetime_log, bar)
            /\ order' = next(df, bar, position)
       ELSE UNCHANGED <<cash_log, datetime_log, order>>
    /\ phase' = "broker"
    /\ UNCHANGED <<df, status, error, bar, position, cash>>
    /\ UNCHANGED <<indVars, predVars>>

\* the data is exhausted: cerebro.run returns; an order submitted at the last
\* bar is never executed and an open position is left open
Finish ==
    /\ status = "running"
    /\ phase = "broker"
    /\ bar = Len(df)
    /\ status' = "finished"
    /\ UNCHANGED <<df, error, bar, phase, position, cash, order, cash_log, datetime_log>>
    /\ UNCHANGED <<indVars, predVars>>

NextSim == Preload \/ BrokerNext \/ StrategyNext \/ Finish

SpecSim == InitSim /\ [][NextSim]_vars

(***************************************************************************)
(* StockAnalyzer (yahoo_finance_data.py).  history_data is a pandas frame:  *)
(* its index, its Close column and the other columns by name.  A cell is    *)
(* NaN, a fraction n/d with d > 0, or +infinity.  The windows that          *)
(* add_indicators and prepare_features pass (20, 50 and 14 in lines 81-85   *)
(* and 197-199) are scaled down like those of the strategy.                 *)
(***************************************************************************)
SmaShortWindow == 2
SmaLongWindow == 3
RsiWindow == 2
MaxWindow == 3
MaxRows == 4

NaN == [k |-> "nan", n |-> 0, d |-> 1]
Inf == [k |-> "inf", n |-> 0, d |-> 1]
Num(n, d) == [k |-> "num", n |-> n, d |-> d]

SmaColumn(w) == <<"SMA", w>>
RsiColumn == <<"RSI", 0>>
PeColumn == <<"PE_Ratio", 0>>

\* stock.history(...) with the PE_Ratio column set to one scalar on every row
Frame(closes, pe) ==
    [loaded |-> TRUE,
     index |-> [i \in 1..Len(closes) |-> i],
     Close |-> closes,
     cols |-> [c \in {PeColumn} |-> [i \in 1..Len(closes) |-> pe]]]

\* (mutant) the frame is replaced by the one new column
SetColumn_Only(cols, name, col) == [c \in {name} |-> col]

\* self.history_data[name] = col: adds the column or overwrites it
SetColumn(cols, name, col) ==
    [c \in DOMAIN cols \cup {name} |-> IF c = name THEN col ELSE cols[c]]

RECURSIVE RollSum_Expanding(_, _, _)
\* (mutant) the row that leaves the window is never taken out
RollSum_Expanding(s, w, i) ==
    IF i = 0 THEN 0 ELSE RollSum_Expanding(s, w, i - 1) + s[i]

RECURSIVE RollSum(_, _, _)
\* pandas' rolling sum at row i: the previous sum plus the row that enters the
\* window minus the row that leaves it
RollSum(s, w, i) ==
    IF i = 0 THEN 0
    ELSE RollSum(s, w, i - 1) + s[i] - (IF i > w THEN s[i - w] ELSE 0)

\* (mutant) min_periods=1: a value as soon as the window holds one row
RollingMean_MinPeriods1(s, w) ==
    [i \in 1..Len(s) |-> Num(RollSum(s, w, i), IF i < w THEN i ELSE w)]

\* Series.rolling(window=w).mean() over a column of integers: NaN until the
\* window holds w rows (min_periods = window), then sum / w
RollingMean(s, w) ==
    [i \in 1..Len(s) |-> IF i < w THEN NaN ELSE Num(RollSum(s, w, i), w)]

\* Series.diff(1): NaN at the first row
Diff(s) == [i \in 1..Len(s) |-> IF i = 1 THEN NaN ELSE Num(s[i] - s[i - 1], 1)]

\* delta.where(delta > 0, 0): NaN > 0 is False, so the first row becomes 0
Gain(delta) ==
    [i \in 1..Len(delta) |-> IF delta[i].k = "num" /\ delta[i].n > 0 THEN delta[i].n ELSE 0]

\* -delta.where(delta < 0, 0)
Loss(delta) ==
    [i \in 1..Len(delta) |-> IF delta[i].k = "num" /\ delta[i].n < 0 THEN -delta[i].n ELSE 0]

\* (mutant) a zero mean loss saturates at 100 even when the mean gain is zero
FloatDiv_Saturating(a, b) ==
    IF a.k = "nan" \/ b.k = "nan" THEN NaN
    ELSE IF b.n = 0 THEN Inf
    ELSE Num(a.n * b.d, a.d * b.n)

\* a / b on floats, a >= 0 and b >= 0: x / 0 is inf, 0 / 0 is NaN
FloatDiv(a, b) ==
    IF a.k = "nan" \/ b.k = "nan" THEN NaN
    ELSE IF b.n = 0 THEN (IF a.n = 0 THEN NaN ELSE Inf)
    ELSE Num(a.n * b.d, a.d * b.n)

\* 100 - (100 / (1 + rs)): 100 / inf is 0
RsiOfRs(rs) ==
    IF rs.k = "nan" THEN NaN
    ELSE IF rs.k = "inf" THEN Num(100, 1)
    ELSE Num(100 * (rs.d + rs.n) - 100 * rs.d, rs.d + rs.n)

\* the RSI column calculate_rsi computes from the Close column
RsiSeries(closes, w) ==
    LET delta == Diff(closes)
        gain == RollingMean(Gain(delta), w)
        loss == RollingMean(Loss(delta), w)
    IN  [i \in 1..Len(closes) |-> RsiOfRs(FloatDiv(gain[i], loss[i]))]

WithSma(f, w) == [f EXCEPT !.cols = SetColumn(f.cols, SmaColumn(w), RollingMean(f.Close, w))]
WithRsi(f, w) == [f EXCEPT !.cols = SetColumn(f.cols, RsiColumn, RsiSeries(f.Close, w))]

\* the three calls add_indicators and prepare_features make
WithIndicators(f) == WithRsi(WithSma(WithSma(f, SmaShortWindow), SmaLongWindow), RsiWindow)

RECURSIVE KeptRows(_, _)
\* the rows 1..i of frame f without a NaN in any column, in order
KeptRows(f, i) ==
    IF i = 0 THEN <<>>
    ELSE IF \E c \in DOMAIN f.cols : f.cols[c][i].k = "nan"
         THEN KeptRows(f, i - 1)
         ELSE Append(KeptRows(f, i - 1), i)

\* DataFrame.dropna(inplace=True)
DropNa(f) ==
    LET keep == KeptRows(f, Len(f.Close))
    IN  [loaded |-> TRUE,
         index |-> [j \in 1..Len(keep) |-> f.index[keep[j]]],
         Close |-> [j \in 1..Len(keep) |-> f.Close[keep[j]]],
         cols |-> [c \in DOMAIN f.cols |-> [j \in 1..Len(keep) |-> f.cols[c][keep[j]]]]]

Call(op, w, raised, closes, out) ==
    [op |-> op, window |-> w, raised |-> raised, close |-> closes, out |-> out]

\* all sequences over S of length 0..n
SeqsFrom0(S, n) == {<<>>} \cup SeqsUpTo(S, n)

\* fetch_history: the provider returns any frame of 0..MaxRows rows; the
\* trailing P/E is a number or missing.  Only the first fetch is modelled: a
\* later one replaces the whole frame, which leads to a state a first fetch
\* leads to.
fetch_history ==
    /\ ~history_data.loaded
    /\ \E closes \in SeqsFrom0(Closes, MaxRows), pe \in {NaN, Num(7, 1)} :
          /\ history_data' = Frame(closes, pe)
          /\ lastCall' = Call("fetch_history", 0, "none", closes, <<>>)
    /\ UNCHANGED <<simVars, predVars>>

calculate_moving_average ==
    /\ \E w \in 1..MaxWindow :
          IF ~history_data.loaded
          THEN /\ lastCall' = Call("calculate_moving_average", w, "ValueError", <<>>, <<>>)
               /\ UNCHANGED history_data
          ELSE /\ history_data' = WithSma(history_data, w)
               /\ lastCall' = Call("calculate_moving_average", w, "none", history_data.Close,
                                   history_data'.cols[SmaColumn(w)])
    /\ UNCHANGED <<simVars, predVars>>

calculate_rsi ==
    /\ \E w \in 1..MaxWindow :
          IF ~history_data.loaded
          THEN /\ lastCall' = Call("calculate_rsi", w, "TypeError", <<>>, <<>>)
               /\ UNCHANGED history_data
          ELSE /\ history_data' = WithRsi(history_data, w)
               /\ lastCall' = Call("calculate_rsi", w, "none", history_data.Close,
                                   history_data'.cols[RsiColumn])
    /\ UNCHANGED <<simVars, predVars>>

add_indicators ==
    /\ IF ~history_data.loaded
       THEN /\ lastCall' = Call("add_indicators", 0, "ValueError", <<>>, <<>>)
            /\ UNCHANGED history_data
       ELSE /\ history_data' = WithIndicators(history_data)
            /\ lastCall' = Call("add_indicators", 0, "none", history_data.Close, <<>>)
    /\ UNCHANGED <<simVars, predVars>>

\* prepare_features: the three indicators, dropna in place, then X and y are
\* selected from what is left (y, the Close column, is what the call records)
prepare_features ==
    /\ IF ~history_data.loaded
       THEN /\ lastCall' = Call("prepare_features", 0, "ValueError", <<>>, <<>>)
            /\ UNCHANGED history_data
       ELSE /\ history_data' = DropNa(WithIndicators(history_data))
            /\ lastCall' = Call("prepare_features", 0, "none", history_data.Close,
                                [i \in 1..Len(history_data'.Close) |->
                                    Num(history_data'.Close[i], 1)])
    /\ UNCHANGED <<simVars, predVars>>

InitInd ==
    /\ df = <<>>
    /\ InitStrategy
    /\ InitAnalyzer
    /\ InitPredictor

NextInd ==
    \/ fetch_history
    \/ calculate_moving_average
    \/ calculate_rsi
    \/ add_indicators
    \/ prepare_features

SpecInd == InitInd /\ [][NextInd]_vars

(***************************************************************************)
(* StockPredictor (light_yagami.py).  The fitted coefficients are not      *)
(* modelled: the LinearRegression is fitted or not, on so many rows.       *)
(***************************************************************************)
MaxSamples == 10
MaxPredictRows == 3

\* train_test_split(X, y, test_size=0.2): the test part is ceil(0.2 * n) rows
TestRows(n) == (n + 4) \div 5

Outcome(op, result, asked, rows) ==
    [op |-> op, result |-> result, asked |-> asked, rows |-> rows]

\* train(X, y) on n rows; `numeric` says whether the training part can be
\* fitted (no missing value in it).  train_test_split raises when it would
\* leave no training row; fit raises on bad data, before anything is stored.
train ==
    /\ \E n \in 0..MaxSamples, numeric \in BOOLEAN :
          IF n - TestRows(n) = 0 \/ ~numeric
          THEN /\ outcome' = Outcome("train", "ValueError", n, 0)
               /\ UNCHANGED <<model, X_test>>
          ELSE /\ model' = [fitted |-> TRUE, rows |-> n - TestRows(n)]
               /\ X_test' = [set |-> TRUE, rows |-> TestRows(n)]
               /\ outcome' = Outcome("train", "ok", n, 0)
    /\ UNCHANGED <<simVars, indVars>>

\* (mutant) predict does not look at whether the model was fitted
IsFitted_Always(m) == TRUE

\* check_is_fitted, the first thing LinearRegression.predict does
IsFitted(m) == m.fitted

\* predict(X) on m rows; `numeric` says whether X can be used
predict ==
    /\ \E m \in 0..MaxPredictRows, numeric \in BOOLEAN :
          outcome' = IF ~IsFitted(model) THEN Outcome("predict", "NotFittedError", m, 0)
                     ELSE IF m = 0 \/ ~numeric THEN Outcome("predict", "ValueError", m, 0)
                     ELSE Outcome("predict", "ok", m, m)
    /\ UNCHANGED <<model, X_test>>
    /\ UNCHANGED <<simVars, indVars>>

InitPred ==
    /\ df = <<>>
    /\ InitStrategy
    /\ InitAnalyzer
    /\ InitPredictor

NextPred == train \/ predict

SpecPred == InitPred /\ [][NextPred]_vars

(***************************************************************************)
(* Properties of the simulation (SpecSim).                                 *)
(***************************************************************************)
StrategyStep == status = "running" /\ phase = "strategy" /\ phase' = "broker"
BrokerStep == status = "running" /\ phase = "broker" /\ phase' = "strategy"

\* the indicator values of bar k, written out from the frame
ShortAboveLong(k) ==
    SumClose(df, k - short_sma + 1, k) * long_sma > SumClose(df, k - long_sma + 1, k) * short_sma
ShortBelowLong(k) ==
    SumClose(df, k - short_sma + 1, k) * long_sma < SumClose(df, k - long_sma + 1, k) * short_sma
RsiBelow(k, level) == rsi(df, k).n < level * rsi(df, k).d
RsiAbove(k, level) == rsi(df, k).n > level * rsi(df, k).d

\* C1: at a bar k at which next() runs with the position FLAT (all indicators
\* present), the position becomes LONG at bar k, bought at bar k's close, if and
\* only if sma_short[k] > sma_long[k] and rsi[k] < rsi_lower, with bar k's own
\* values; otherwise the position stays FLAT after bar k.
C1_LongAtSignalBar ==
    [][(StrategyStep /\ bar >= minperiod /\ position = 0)
          => /\ position' = 1 <=> (ShortAboveLong(bar) /\ RsiBelow(bar, rsi_lower))
             /\ position' = 1 => cash' = cash - df[bar].Close]_vars

\* What the code does instead of C1: at a bar k at which next() runs with the
\* position FLAT, a buy order for one unit is submitted if and only if
\* sma_short[k] > sma_long[k] and rsi[k] < rsi_lower, with bar k's own values,
\* and no order otherwise; the position is still FLAT after bar k.  The order is
\* executed at bar k+1: the position becomes LONG there, paying bar k+1's open,
\* if and only if the cash covers bar k's close and bar k+1's open.
BuyOrderAtSignalBar ==
    [][/\ (StrategyStep /\ bar >= minperiod /\ position = 0)
            => /\ order'.kind = "buy" <=> (ShortAboveLong(bar) /\ RsiBelow(bar, rsi_lower))
               /\ order'.kind \in {"buy", "none"}
               /\ order'.kind = "buy" => order'.price = df[bar].Close
               /\ position' = 0 /\ cash' = cash
       /\ (BrokerStep /\ order.kind = "buy")
            => /\ position' = 1 <=> (cash >= order.price /\ cash >= df[bar'].Open)
               /\ position' = 1 => cash' = cash - df[bar'].Open
               /\ position' # 1 => (position' = 0 /\ cash' = cash)]_vars

\* a buy order was submitted at the previous bar and has just been executed at
\* this bar's open, which differs from the close it was created at
BoughtAtNextOpen ==
    /\ status = "running" /\ phase = "strategy" /\ position = 1
    /\ bar > minperiod
    /\ cash_log[Len(cash_log)] = cash + df[bar].Open
    /\ df[bar].Open # df[bar - 1].Close

\* C2: at a bar at which next() runs with the position LONG, the position is
\* sold (LONG to FLAT, at that bar's close) if and only if sma_short < sma_long
\* or rsi > rsi_upper; when neither holds the position remains LONG.
C2_FlatAtSignalBar ==
    [][(StrategyStep /\ bar >= minperiod /\ position = 1)
          => /\ position' = 0 <=> (ShortBelowLong(bar) \/ RsiAbove(bar, rsi_upper))
             /\ position' = 0 => cash' = cash + df[bar].Close]_vars

\* What the code does instead of C2: at a bar k at which next() runs with the
\* position LONG, a sell order for one unit is submitted if and only if
\* sma_short[k] < sma_long[k] or rsi[k] > rsi_upper; when neither holds no order
\* is submitted; either way the position is still LONG after bar k.  The sale is
\* executed at bar k+1, at that bar's open: only there does the position go
\* from LONG to FLAT.
SellOrderAtSignalBar ==
    [][/\ (StrategyStep /\ bar >= minperiod /\ position = 1)
            => /\ order'.kind = "sell" <=> (ShortBelowLong(bar) \/ RsiAbove(bar, rsi_upper))
               /\ order'.kind \in {"sell", "none"}
               /\ position' = 1 /\ cash' = cash
       /\ (BrokerStep /\ order.kind = "sell")
            => (position' = position - 1 /\ cash' = cash + df[bar'].Open)
       /\ (BrokerStep /\ order.kind = "none")
            => (position' = position /\ cash' = cash)]_vars

\* a position was held through a bar at which neither exit condition held, and
\* a sell order has been submitted at a later bar
HeldThenSellOrder ==
    /\ status = "running" /\ phase = "broker" /\ position = 1
    /\ order.kind = "sell"
    /\ Len(cash_log) >= 2
    /\ cash_log[Len(cash_log) - 1] < starting_cash

\* the bars for which the strategy has been called
BarsSeen == IF phase = "strategy" THEN bar - 1 ELSE bar

\* C3 as stated: after a run over n bars the cash log and the datetime log each
\* have exactly n entries.
C3_OneEntryPerBar ==
    status = "finished" => (Len(cash_log) = Len(df) /\ Len(datetime_log) = Len(df))

\* C3 (amended): the strategy appends exactly one (timestamp, current cash)
\* entry at every bar from the minimum period on (the largest indicator period,
\* 50 with the default params) and none at the earlier bars, whether or not an
\* order is submitted; so the two logs always have the same length, the number
\* of bars seen minus (minperiod - 1), their timestamps are those of the bars
\* minperiod, minperiod + 1, ... in order, and a run that finishes over n bars
\* leaves n - minperiod + 1 entries.
C3_OneEntryPerBarFromMinPeriod ==
    /\ Len(cash_log) = Len(datetime_log)
    /\ Len(cash_log) = Max(0, BarsSeen - minperiod + 1)
    /\ \A j \in 1..Len(datetime_log) : datetime_log[j] = minperiod - 1 + j
    /\ (phase = "broker" /\ cash_log # <<>>) => cash_log[Len(cash_log)] = cash
    /\ status = "finished" => Len(cash_log) = Len(df) - minperiod + 1

\* a finished run whose log has entries, but fewer than the frame has bars, some
\* of them for bars at which no order was submitted
C3_Witness ==
    /\ status = "finished"
    /\ Len(cash_log) >= 2
    /\ Len(cash_log) < Len(df)
    /\ cash_log[Len(cash_log)] # starting_cash

IsConstant(d) == \A k \in 1..Len(d) : d[k].Close = d[1].Close /\ d[k].Open = d[1].Close

\* C4: running the simulation on a constant-price series completes without
\* error and never transitions: the position is FLAT and every entry of the
\* equity curve equals the starting cash.  (Stated for the series long enough
\* for every indicator to have a value.)
C4_ConstantSeriesCompletes ==
    (IsConstant(df) /\ Len(df) >= minperiod /\ status # "created")
        => /\ status # "raised"
           /\ position = 0
           /\ \A j \in 1..Len(cash_log) : cash_log[j] = starting_cash

\* C5: the position is FLAT or LONG with a single unit; a buy is only ever
\* submitted while FLAT and a sell only while LONG; and the position changes
\* only when the broker executes the order the rule submitted at the bar before.
C5_FlatOrLong ==
    /\ [](/\ position \in {0, 1}
          /\ order.kind = "buy" => position = 0
          /\ order.kind = "sell" => position = 1)
    /\ [][position' # position => (BrokerStep /\ order.kind # "none")]_vars

\* a round trip: bought, held, sold, and FLAT again
C5_Witness ==
    /\ position = 0 /\ order.kind = "none"
    /\ Len(cash_log) >= 2
    /\ cash_log[Len(cash_log)] < starting_cash
    /\ cash > cash_log[Len(cash_log)]


(***************************************************************************)
(* Properties of the analyzer (SpecInd), stated on the last call: its       *)
(* window, the Close column it read and the column it returned.            *)
(***************************************************************************)
RECURSIVE SumInts(_, _, _)
SumInts(s, a, b) == IF a > b THEN 0 ELSE s[b] + SumInts(s, a, b - 1)

\* the gains and the losses among the close-to-close deltas of rows a..b (a >= 2)
RECURSIVE Gains(_, _, _)
Gains(c, a, b) == IF a > b THEN 0 ELSE Max(c[b] - c[b - 1], 0) + Gains(c, a, b - 1)
RECURSIVE Losses(_, _, _)
Losses(c, a, b) == IF a > b THEN 0 ELSE Max(c[b - 1] - c[b], 0) + Losses(c, a, b - 1)

Returned(op) == lastCall.op = op /\ lastCall.raised = "none"
Is(cell, x) == cell.k = "num" /\ cell.n = x * cell.d

\* C6: for a non-empty close series S and a window w with 1 <= w <= len(S), the
\* moving-average column has the length of S, exactly w-1 leading missing
\* values, and from row w on the arithmetic mean of the last w closes.
C6_MovingAverage ==
    (Returned("calculate_moving_average") /\ Len(lastCall.close) >= 1
        /\ lastCall.window <= Len(lastCall.close))
    => LET S == lastCall.close
           w == lastCall.window
           out == lastCall.out
       IN  /\ Len(out) = Len(S)
           /\ \A i \in 1..(w - 1) : out[i].k = "nan"
           /\ \A i \in w..Len(S) :
                 out[i].k = "num" /\ out[i].n * w = out[i].d * SumInts(S, i - w + 1, i)

\* a window shorter than the series, so that it has slid past the first row
C6_Witness ==
    /\ Returned("calculate_moving_average")
    /\ lastCall.window >= 2
    /\ Len(lastCall.close) > lastCall.window
    /\ lastCall.close[1] # lastCall.close[Len(lastCall.close)]
    /\ lastCall.out[Len(lastCall.close)].k = "num"

\* C7 as stated: every defined RSI value lies in [0, 100]; whenever the deltas of
\* the window are all non-negative (mean loss 0, the deltas all zero included)
\* the RSI is exactly 100, not a missing value; whenever they are all
\* non-positive the RSI is 0.  Taken on the rows whose window holds w actual
\* deltas.
C7_SaturatesAt100 ==
    Returned("calculate_rsi")
    => LET c == lastCall.close
           w == lastCall.window
           out == lastCall.out
       IN  \A i \in (w + 1)..Len(c) :
              /\ out[i].k = "num" => (0 <= out[i].n /\ out[i].n <= 100 * out[i].d)
              /\ Losses(c, i - w + 1, i) = 0 => Is(out[i], 100)
              /\ Gains(c, i - w + 1, i) = 0 => Is(out[i], 0)

\* C7 (amended): every defined RSI value lies in [0, 100] and none is infinite;
\* when the deltas of the window are all non-negative and one of them is
\* positive the RSI is exactly 100; when they are all non-positive and one is
\* negative it is 0; when they are all zero (mean gain and mean loss both 0)
\* the RSI is missing (NaN), and no error is raised.
C7_RsiRange ==
    Returned("calculate_rsi")
    => LET c == lastCall.close
           w == lastCall.window
           out == lastCall.out
       IN  \A i \in 1..Len(c) :
              LET a == Max(2, i - w + 1)
              IN  /\ out[i].k \in {"nan", "num"}
                  /\ out[i].k = "num" => (0 <= out[i].n /\ out[i].n <= 100 * out[i].d)
                  /\ (i >= w /\ Losses(c, a, i) = 0 /\ Gains(c, a, i) > 0) => Is(out[i], 100)
                  /\ (i >= w /\ Gains(c, a, i) = 0 /\ Losses(c, a, i) > 0) => Is(out[i], 0)
                  /\ (i >= w /\ Gains(c, a, i) = 0 /\ Losses(c, a, i) = 0) => out[i].k = "nan"

\* one column with a flat window (missing), a rising one (100), a falling one (0)
C7_Witness ==
    /\ Returned("calculate_rsi")
    /\ lastCall.window = 1
    /\ \E i, j, l \in 2..Len(lastCall.close) :
          /\ lastCall.out[i].k = "nan"
          /\ Is(lastCall.out[j], 100)
          /\ Is(lastCall.out[l], 0)

\* C8 as stated: the first w rows of the RSI column (indices 0..w-1) are missing.
C8_FirstWindowMissing ==
    Returned("calculate_rsi")
    => \A i \in 1..Len(lastCall.close) : i <= lastCall.window => lastCall.out[i].k = "nan"

\* C8 (amended): the first w-1 rows of the RSI column (indices 0..w-2) are
\* missing.  Row w (index w-1) already has a full window, because the undefined
\* delta of the first row counts as 0: its RSI is that of the w-1 actual deltas
\* of rows 2..w, 100 * gains / (gains + losses), and is missing only when those
\* deltas are all zero.  Every later row is computed from w actual deltas.
C8_FirstWindowLessOneMissing ==
    Returned("calculate_rsi")
    => LET c == lastCall.close
           w == lastCall.window
           out == lastCall.out
       IN  /\ Len(out) = Len(c)
           /\ \A i \in 1..Len(c) :
                 LET g == Gains(c, Max(2, i - w + 1), i)
                     l == Losses(c, Max(2, i - w + 1), i)
                 IN  IF i < w \/ g + l = 0
                     THEN out[i].k = "nan"
                     ELSE out[i].k = "num" /\ out[i].n * (g + l) = 100 * g * out[i].d

\* row w of a window of at least 2 has an RSI that is neither 0 nor 100
C8_Witness ==
    /\ Returned("calculate_rsi")
    /\ lastCall.window >= 3
    /\ Len(lastCall.close) >= lastCall.window
    /\ lastCall.out[lastCall.window].k = "num"
    /\ ~Is(lastCall.out[lastCall.window], 0)
    /\ ~Is(lastCall.out[lastCall.window], 100)

IndicatorCall(op) == op \in {"calculate_moving_average", "calculate_rsi", "add_indicators"}

\* the columns an indicator call writes
Written(call) ==
    IF call.op = "calculate_moving_average" THEN {SmaColumn(call.window)}
    ELSE IF call.op = "calculate_rsi" THEN {RsiColumn}
    ELSE {SmaColumn(SmaShortWindow), SmaColumn(SmaLongWindow), RsiColumn}

\* C9 as stated: computing a moving average or the RSI, add_indicators and
\* prepare_features leave the stored frame unchanged: no column added or
\* overwritten, no row removed.
C9_FrameUnchanged ==
    [][(history_data.loaded /\ (IndicatorCall(lastCall'.op) \/ lastCall'.op = "prepare_features"))
          => history_data' = history_data]_vars

\* C9 (amended): the indicator operations write into the stored frame.
\* calculate_moving_average(w) adds or overwrites the column SMA_w,
\* calculate_rsi the column RSI and add_indicators those three columns; they
\* leave the index, the Close column and every other column as they were.
\* prepare_features writes the three columns and then removes, in place, every
\* row with a missing value in any column, so that the frame it leaves has no
\* missing value and an indicator computed afterwards is computed over the rows
\* that are left.
C9_WritesOwnColumnOnly ==
    [][/\ (history_data.loaded /\ IndicatorCall(lastCall'.op))
            => /\ history_data'.index = history_data.index
               /\ history_data'.Close = history_data.Close
               /\ DOMAIN history_data'.cols = DOMAIN history_data.cols \cup Written(lastCall')
               /\ \A c \in DOMAIN history_data.cols \ Written(lastCall') :
                     history_data'.cols[c] = history_data.cols[c]
               /\ \A c \in Written(lastCall') :
                     Len(history_data'.cols[c]) = Len(history_data.Close)
       /\ (history_data.loaded /\ lastCall'.op = "prepare_features")
            => /\ Len(history_data'.index) <= Len(history_data.index)
               /\ \A j \in 1..Len(history_data'.index) :
                     /\ history_data'.index[j] \in {history_data.index[i] :
                                                      i \in 1..Len(history_data.index)}
                     /\ \A c \in DOMAIN history_data'.cols : history_data'.cols[c][j].k # "nan"
               /\ \A i \in 1..Len(history_data.index) :
                     (\E j \in 1..Len(history_data'.index) :
                         history_data'.index[j] = history_data.index[i])
                     <=> (\A c \in DOMAIN history_data'.cols :
                            WithIndicators(history_data).cols[c][i].k # "nan")]_vars

\* after prepare_features has removed rows, a moving average was computed over
\* the rows that were left, next to columns written earlier
C9_Witness ==
    /\ Returned("calculate_moving_average")
    /\ history_data.loaded
    /\ Len(history_data.index) >= 2
    /\ history_data.index[1] > 1
    /\ RsiColumn \in DOMAIN history_data.cols
    /\ history_data.cols[SmaColumn(lastCall.window)][1].k = "nan"


=============================================================================
